---- MODULE Spec2Model ----
(***************************************************************************)
(* draw-a-square: the drag-to-rectangle state machine of src/index.ts      *)
(* (the last variant in the file, lines 472-673) together with the state   *)
(* store of src/unnamed/part_002.                                          *)
(*                                                                         *)
(* The program state is the subscriber's cached snapshot (curState), the   *)
(* value held by the BehaviorSubject (squaresState), and the part of the   *)
(* DOM the handlers read back: the children of #main, the counter text and *)
(* the disabled attribute of the two buttons.  Each DOM event handler is   *)
(* one action; the synchronous chain setState -> getState -> next ->       *)
(* subscriber -> renderUi is part of the action that starts it.            *)
(*                                                                         *)
(* Of each <g> child only the id number N (boundingBox-N / square-N /      *)
(* text-width-N share it) and the <rect>'s x, y, width, height are kept;   *)
(* the <text> node exists exactly when its <rect> does and nothing reads   *)
(* its attributes back.                                                    *)
(***************************************************************************)
EXTENDS Integers, Sequences, FiniteSets, TLC

\* ---- bounds of the model ------------------------------------------------
MaxCoord == 1      \* pointer coordinates range over 0..MaxCoord on each axis
MaxCount == 2      \* mouseup is not taken once squareCount reached MaxCount
MaxChildren == 2   \* mousedown is not taken once #main has MaxChildren children
MaxUnder == 1      \* undo is not taken once squareCount reached -MaxUnder

Coord == 0..MaxCoord
Point == [x : Coord, y : Coord]
Origin == [x |-> 0, y |-> 0]

\* an attribute that was never set on an element
Unset == -1

VARIABLES
    curState,        \* index.ts:488  the subscriber's cached snapshot
    squaresState,    \* part_002:24   the value held by the BehaviorSubject
    main,            \* index.ts:478  children of #main, in document order
    countEl,         \* index.ts:479  the number shown by the counter
    undoDisabled,    \* index.ts:481  disabled attribute of #undo
    clearDisabled,   \* index.ts:480  disabled attribute of #clear
    stateSub,        \* the squaresState subscription (index.ts:643) is live
    undoSub,         \* the undo$ subscription (index.ts:642) is live
    unsubOnError,    \* the rxjs build tears a subscription down when its
                     \* next-handler throws (rxjs 6) or keeps it (rxjs 7)
    lastCmd,         \* type of the event handled last ("" before the first)
    emitted,         \* number of snapshots the last event published
    err,             \* the last event's handling raised a TypeError
    gest,            \* observer of the gesture start(A) -> drag(B) -> cancel(B)
    pc,              \* "load": gatherEventStream() has not run yet; "run"
    received,        \* number of snapshots the squaresState subscriber was
                     \* handed by the last event or by subscribe
    created,         \* number of elements initDraw appended to #main while
                     \* the last event was handled
    nDone            \* observer: the first nDone children of #main are shapes
                     \* that were in #main when a mouseup was handled

vars == <<curState, squaresState, main, countEl, undoDisabled, clearDisabled,
          stateSub, undoSub, unsubOnError, lastCmd, emitted, err, gest, pc,
          received, created, nDone>>

\* ---- the store (src/unnamed/part_002) -----------------------------------
currentSquaresState ==
    [ coordinates   |-> Origin,
      dragging      |-> FALSE,
      startPoint    |-> Origin,
      endPoint      |-> Origin,
      dragType      |-> "",
      dragDirection |-> [dragLeft |-> FALSE, dragUp |-> FALSE],
      squareCount   |-> 0 ]

\* a getState that copies the flags it is given instead of deriving them
getStateCopyingFlags(state) ==
    [ dragging      |-> state.dragging,
      coordinates   |-> [x |-> state.coordinates.x, y |-> state.coordinates.y],
      startPoint    |-> [x |-> state.startPoint.x, y |-> state.startPoint.y],
      endPoint      |-> [x |-> state.endPoint.x, y |-> state.endPoint.y],
      dragType      |-> state.dragType,
      dragDirection |-> state.dragDirection,
      squareCount   |-> state.squareCount ]

getState(state) ==
    [ dragging      |-> state.dragging,
      coordinates   |-> [x |-> state.coordinates.x, y |-> state.coordinates.y],
      startPoint    |-> [x |-> state.startPoint.x, y |-> state.startPoint.y],
      endPoint      |-> [x |-> state.endPoint.x, y |-> state.endPoint.y],
      dragType      |-> state.dragType,
      dragDirection |-> [ dragLeft |-> state.startPoint.x > state.coordinates.x,
                          dragUp   |-> state.startPoint.y > state.coordinates.y ],
      squareCount   |-> state.squareCount ]

\* ---- the renderer (src/index.ts:498-585) --------------------------------
\* document.querySelector('#square-N'): the first match in document order,
\* as an index into the children of #main; 0 stands for null
querySelector(m, n) ==
    IF \E i \in 1..Len(m) : m[i].id = n
    THEN CHOOSE i \in 1..Len(m) :
             m[i].id = n /\ \A j \in 1..(i - 1) : m[j].id # n
    ELSE 0

initDraw(state, m) ==
    Append(m, [ id     |-> state.squareCount + 1,
                x      |-> state.coordinates.x,
                y      |-> state.coordinates.y,
                width  |-> Unset,
                height |-> Unset ])

\* drawSquare on an element that exists
drawSquare(state, m) ==
    LET i == querySelector(m, state.squareCount + 1)
        width == IF state.dragDirection.dragLeft
                 THEN state.startPoint.x - state.coordinates.x
                 ELSE state.coordinates.x - state.startPoint.x
        height == IF state.dragDirection.dragUp
                  THEN state.startPoint.y - state.coordinates.y
                  ELSE state.coordinates.y - state.startPoint.y
    IN [m EXCEPT ![i] =
          [ id     |-> @.id,
            width  |-> width,
            height |-> height,
            x      |-> IF state.dragDirection.dragLeft
                       THEN state.coordinates.x ELSE @.x,
            y      |-> IF state.dragDirection.dragUp
                       THEN state.coordinates.y ELSE @.y ]]

renderButtonStates(state) == state.squareCount = 0

\* renderUi(state) run by the subscriber right after curState = state.
\* The result is the DOM afterwards; threw: drawSquare dereferenced the null
\* that querySelector returned, before any attribute was written and before
\* renderButtonStates ran.
renderUi(state, m, cnt, ud, cd) ==
    IF /\ state.dragging
       /\ state.dragType = "drag"
       /\ querySelector(m, state.squareCount + 1) = 0
    THEN [main |-> m, countEl |-> cnt, undoDisabled |-> ud,
          clearDisabled |-> cd, threw |-> TRUE, created |-> 0]
    ELSE [ main |-> IF state.dragging /\ state.dragType = "start"
                    THEN initDraw(state, m)
                    ELSE IF state.dragging /\ state.dragType = "drag"
                         THEN drawSquare(state, m)
                         ELSE m,
           countEl |-> IF ~state.dragging /\ state.dragType = "cancel"
                       THEN state.squareCount ELSE cnt,
           undoDisabled  |-> renderButtonStates(state),
           clearDisabled |-> renderButtonStates(state),
           threw |-> FALSE,
           created |-> IF state.dragging /\ state.dragType = "start"
                       THEN 1 ELSE 0 ]

\* setState(state) with #main holding m: squaresState.next(getState(state)),
\* which runs the subscriber (curState = state; renderUi(state)) while the
\* subscription is live.  An exception in the subscriber does not reach the
\* caller of setState.
setState(state, m) ==
    LET s == getState(state)
        r == renderUi(s, m, countEl, undoDisabled, clearDisabled)
    IN IF stateSub
       THEN [ store |-> s, cur |-> s, main |-> r.main, countEl |-> r.countEl,
              undoDisabled |-> r.undoDisabled,
              clearDisabled |-> r.clearDisabled,
              sub |-> IF r.threw THEN ~unsubOnError ELSE TRUE,
              threw |-> r.threw, created |-> r.created ]
       ELSE [ store |-> s, cur |-> curState, main |-> m, countEl |-> countEl,
              undoDisabled |-> undoDisabled, clearDisabled |-> clearDisabled,
              sub |-> FALSE, threw |-> FALSE, created |-> 0 ]

\* ---- the shape of the state ---------------------------------------------
\* SquaresState (src/unnamed/part_000) over the bounded coordinates
SquaresState ==
    [ coordinates   : Point,
      dragging      : BOOLEAN,
      startPoint    : Point,
      endPoint      : Point,
      dragType      : {"", "start", "drag", "cancel"},
      dragDirection : [dragLeft : BOOLEAN, dragUp : BOOLEAN],
      squareCount   : (-MaxUnder)..MaxCount ]

\* a child of #main: the <g> created by initDraw, with the attributes of its
\* <rect>
Element ==
    [ id     : (1 - MaxUnder)..(MaxCount + 1),
      x      : Coord,
      y      : Coord,
      width  : {Unset} \cup Coord,
      height : {Unset} \cup Coord ]

TypeOK ==
    /\ curState \in SquaresState
    /\ squaresState \in SquaresState
    /\ main \in Seq(Element) /\ Len(main) <= MaxChildren
    /\ countEl \in (-MaxUnder)..MaxCount
    /\ undoDisabled \in BOOLEAN /\ clearDisabled \in BOOLEAN
    /\ stateSub \in BOOLEAN /\ undoSub \in BOOLEAN /\ unsubOnError \in BOOLEAN
    /\ lastCmd \in {"", "start", "drag", "cancel", "undo", "clear"}
    /\ emitted \in 0..1
    /\ err \in BOOLEAN
    /\ pc \in {"load", "run"}
    /\ received \in 0..1
    /\ created \in 0..1
    /\ nDone \in 0..Len(main)

\* ---- the gesture observer -----------------------------------------------
NoGesture == [stage |-> 0, A |-> Origin, count0 |-> 0]

\* stage 1: start(A) was handled while the snapshot was not dragging, its
\* squareCount being count0; stage 2: drag(B) followed it, B being the
\* coordinates of the snapshot drag(B) published; stage 3: cancel(B)
\* followed that; stage 4: a cancel followed stage 1 at once; stage 5: an
\* undo followed stage 4
gestNext(type, p) ==
    IF type = "start" /\ ~squaresState.dragging
    THEN [stage |-> 1, A |-> p, count0 |-> squaresState.squareCount]
    ELSE IF type = "drag" /\ gest.stage = 1
    THEN [gest EXCEPT !.stage = 2]
    ELSE IF type = "cancel" /\ gest.stage = 2 /\ p = squaresState.coordinates
    THEN [gest EXCEPT !.stage = 3]
    ELSE IF type = "cancel" /\ gest.stage = 1
    THEN [gest EXCEPT !.stage = 4]
    ELSE IF type = "undo" /\ gest.stage = 4
    THEN [gest EXCEPT !.stage = 5]
    ELSE NoGesture

\* ---- initial state: the module is loaded, gatherEventStream() not yet run
\* The buttons' disabled attributes are those of the page's markup.
Init ==
    /\ curState = currentSquaresState
    /\ squaresState = currentSquaresState
    /\ main = <<>>
    /\ countEl = 0
    /\ undoDisabled \in BOOLEAN
    /\ clearDisabled \in BOOLEAN
    /\ stateSub = FALSE
    /\ undoSub = FALSE
    /\ unsubOnError \in BOOLEAN
    /\ lastCmd = ""
    /\ emitted = 0
    /\ err = FALSE
    /\ gest = NoGesture
    /\ pc = "load"
    /\ received = 0
    /\ created = 0
    /\ nDone = 0

\* a subscribe that replays nothing, as a plain Subject would
subscribeWithoutReplay(held) == << >>

\* squaresState.subscribe(observer): the values the BehaviorSubject hands the
\* new observer before subscribe returns
subscribe(held) == <<held>>

\* gatherEventStream(): subscribes the click streams, the state subscriber
\* (which is run on every value it is handed: curState = state; renderUi(state))
\* and the mouse stream
gatherEventStream ==
    /\ pc = "load"
    /\ pc' = "run"
    /\ undoSub' = TRUE
    /\ stateSub' = TRUE
    /\ \E d \in {subscribe(squaresState)} :
          /\ received' = Len(d)
          /\ IF d = << >>
             THEN UNCHANGED <<curState, main, countEl, undoDisabled,
                              clearDisabled, created>>
             ELSE \E r \in {renderUi(d[1], main, countEl, undoDisabled,
                                     clearDisabled)} :
                    /\ curState' = d[1]
                    /\ main' = r.main
                    /\ countEl' = r.countEl
                    /\ undoDisabled' = r.undoDisabled
                    /\ clearDisabled' = r.clearDisabled
                    /\ created' = r.created
    /\ UNCHANGED <<squaresState, unsubOnError, lastCmd, emitted, err, gest,
                   nDone>>

\* the effect of one setState call on every variable it can touch
Apply(r) ==
    /\ squaresState' = r.store
    /\ curState' = r.cur
    /\ main' = r.main
    /\ undoDisabled' = r.undoDisabled
    /\ clearDisabled' = r.clearDisabled
    /\ stateSub' = r.sub
    /\ received' = (IF stateSub THEN 1 ELSE 0)
    /\ created' = r.created
    /\ emitted' = 1
    /\ err' = r.threw

\* ---- mouse events on #main (index.ts:647-670) ---------------------------
MouseDown(p) ==
    /\ pc = "run"
    /\ Len(main) < MaxChildren
    /\ \E r \in {setState([curState EXCEPT !.dragging = TRUE,
                                          !.startPoint = p,
                                          !.dragType = "start"], main)} :
          Apply(r) /\ countEl' = r.countEl
    /\ lastCmd' = "start"
    /\ gest' = gestNext("start", p)
    /\ UNCHANGED <<undoSub, unsubOnError, pc, nDone>>

MouseUp(p) ==
    /\ pc = "run"
    /\ curState.squareCount < MaxCount
    /\ \E r \in {setState([curState EXCEPT !.dragging = FALSE,
                                          !.endPoint = p,
                                          !.dragType = "cancel",
                                          !.squareCount = @ + 1], main)} :
          Apply(r) /\ countEl' = r.countEl /\ nDone' = Len(r.main)
    /\ lastCmd' = "cancel"
    /\ gest' = gestNext("cancel", p)
    /\ UNCHANGED <<undoSub, unsubOnError, pc>>

MouseMove(p) ==
    /\ pc = "run"
    /\ \E r \in {setState([curState EXCEPT !.coordinates = p,
                                          !.dragType = "drag"], main)} :
          Apply(r) /\ countEl' = r.countEl
    /\ lastCmd' = "drag"
    /\ gest' = gestNext("drag", p)
    /\ UNCHANGED <<undoSub, unsubOnError, pc, nDone>>

\* ---- the buttons (index.ts:589-606, 641-642) ----------------------------
\* main.removeChild(document.getElementById(id))
removeChild(m, i) == [k \in 1..(Len(m) - 1) |-> IF k < i THEN m[k] ELSE m[k + 1]]

\* document.getElementById(undoSquare[0]['id']): the first element in document
\* order that carries the id of the last child of #main
getElementById(m) == querySelector(m, m[Len(m)].id)

\* the children of #main an Undo leaves in place, before the subscriber
\* renders the snapshot
afterUndo(m) == IF m = << >> THEN m ELSE removeChild(m, getElementById(m))

\* the number of committed shapes among them
doneAfterUndo(m, n) ==
    IF m # << >> /\ getElementById(m) <= n THEN n - 1 ELSE n

\* a click on #undo: delivered only while the button is not disabled
UndoClick ==
    /\ pc = "run"
    /\ ~undoDisabled
    /\ undoSub
    /\ curState.squareCount > -MaxUnder
    /\ lastCmd' = "undo"
    /\ gest' = gestNext("undo", Origin)
    /\ IF main = <<>>
       THEN \* undoSquare[0] is undefined: TypeError before anything changed
            /\ err' = TRUE
            /\ emitted' = 0
            /\ received' = 0
            /\ created' = 0
            /\ undoSub' = ~unsubOnError
            /\ UNCHANGED <<curState, squaresState, main, countEl, undoDisabled,
                           clearDisabled, stateSub, unsubOnError, pc,
                           nDone>>
       ELSE \E r \in {setState([curState EXCEPT !.squareCount = @ - 1],
                                 afterUndo(main))} :
               /\ Apply(r)
               /\ countEl' = r.cur.squareCount
               /\ nDone' = doneAfterUndo(main, nDone)
               /\ UNCHANGED <<undoSub, unsubOnError, pc>>

\* a click on #clear
ClearClick ==
    /\ pc = "run"
    /\ ~clearDisabled
    /\ \E r \in {setState([curState EXCEPT !.squareCount = 0], <<>>)} :
          Apply(r) /\ countEl' = r.cur.squareCount /\ nDone' = 0
    /\ lastCmd' = "clear"
    /\ gest' = gestNext("clear", Origin)
    /\ UNCHANGED <<undoSub, unsubOnError, pc>>

Next ==
    \/ gatherEventStream
    \/ \E p \in Point : MouseDown(p)
    \/ \E p \in Point : MouseMove(p)
    \/ \E p \in Point : MouseUp(p)
    \/ UndoClick
    \/ ClearClick

Spec == Init /\ [][Next]_vars

\* ========================================================================
\* The claims.  A published snapshot is the value squaresState holds; the
\* phase is Dragging when its dragging field is TRUE.
\* ========================================================================

\* C1: in every reachable snapshot squareCount >= 0, whatever sequence of
\* mousedown, mousemove, mouseup, undo and clear events was handled.
C1_ShapeCountNeverNegative == squaresState.squareCount >= 0

\* C2: whenever the phase is Idle, squareCount equals the number of shape
\* elements that #main holds.
C2_IdleCountEqualsChildren ==
    ~squaresState.dragging => squaresState.squareCount = Len(main)

\* C3: an undo handled while squareCount is 0 is a no-op: no snapshot is
\* published and no field of the state changes.
C3_UndoAtZeroIsNoOp ==
    [][(lastCmd' = "undo" /\ squaresState.squareCount = 0)
         => (emitted' = 0 /\ squaresState' = squaresState /\ main' = main)]_vars

\* C4: a mousemove or mouseup handled while the phase is Idle is ignored: no
\* snapshot is published, the phase stays Idle, squareCount, startPoint and
\* coordinates keep their values.
C4_IdleMoveAndEndIgnored ==
    [][(~squaresState.dragging /\ lastCmd' \in {"drag", "cancel"})
         => (emitted' = 0 /\ squaresState' = squaresState)]_vars

\* the rectangle the claims expect for anchor a and current point b: top-left
\* origin, non-negative width and height
Min(a, b) == IF a < b THEN a ELSE b
Abs(a) == IF a < 0 THEN -a ELSE a
ExpectedRect(a, b) ==
    [ origin |-> [x |-> Min(a.x, b.x), y |-> Min(a.y, b.y)],
      width  |-> Abs(b.x - a.x),
      height |-> Abs(b.y - a.y) ]

\* the rectangle an element of #main shows
RectOf(el) ==
    [ origin |-> [x |-> el.x, y |-> el.y],
      width  |-> el.width,
      height |-> el.height ]

\* the element the gesture in progress (or just ended) appended to #main
DrawnRect == RectOf(main[Len(main)])

\* C5: the gesture start(A) -> drag(B) -> cancel(B) begun in Idle ends in
\* Idle with squareCount one above its value before the gesture and with the
\* rectangle origin (min x, min y), width |B.x - A.x|, height |B.y - A.y|
\* (hence the same rectangle as the reversed gesture).
C5_GestureYieldsNormalizedRect ==
    gest.stage = 3 =>
        /\ ~squaresState.dragging
        /\ squaresState.squareCount = gest.count0 + 1
        /\ main # <<>>
        /\ DrawnRect = ExpectedRect(gest.A, squaresState.endPoint)

\* C6: while Dragging, after every drag event the rectangle in progress has
\* origin (min x, min y) of startPoint and coordinates, width |dx| and
\* height |dy|, whatever drag events came before.
C6_InProgressRectNormalized ==
    (squaresState.dragging /\ lastCmd = "drag") =>
        /\ main # <<>>
        /\ DrawnRect = ExpectedRect(squaresState.startPoint,
                                    squaresState.coordinates)

\* C7: start(p) handled in Idle publishes a Dragging snapshot whose
\* startPoint and coordinates are both p.
C7_StartSetsAnchorAndCurrent ==
    gest.stage = 1 =>
        /\ squaresState.dragging
        /\ squaresState.startPoint = gest.A
        /\ squaresState.coordinates = gest.A

\* C8: cancel(p) handled in Dragging publishes exactly one snapshot, which is
\* Idle, has coordinates p and a squareCount one above the previous one.
C8_EndSetsCurrentAndCommits ==
    [][(squaresState.dragging /\ lastCmd' = "cancel")
         => /\ emitted' = 1
            /\ ~squaresState'.dragging
            /\ squaresState'.squareCount = squaresState.squareCount + 1
            /\ squaresState'.coordinates = squaresState'.endPoint]_vars

\* C9: in every published snapshot dragLeft = (startPoint.x > coordinates.x)
\* and dragUp = (startPoint.y > coordinates.y).
C9_DirectionDerivedFromPoints ==
    /\ squaresState.dragDirection.dragLeft
         = (squaresState.startPoint.x > squaresState.coordinates.x)
    /\ squaresState.dragDirection.dragUp
         = (squaresState.startPoint.y > squaresState.coordinates.y)

\* C9 witness: a mousedown (which writes startPoint only) published a
\* snapshot whose anchor lies right of and below the current point, and both
\* flags are set.
C9_Witness ==
    /\ lastCmd = "start"
    /\ squaresState.startPoint.x > squaresState.coordinates.x
    /\ squaresState.startPoint.y > squaresState.coordinates.y
    /\ squaresState.dragDirection.dragLeft
    /\ squaresState.dragDirection.dragUp

\* C10: an undo handled while squareCount > 0, in either phase, publishes
\* exactly one snapshot whose squareCount is one less and whose phase,
\* startPoint and coordinates (hence the rectangle they span) are unchanged.
C10_UndoDecrementsOnly ==
    [][(lastCmd' = "undo" /\ squaresState.squareCount > 0)
         => /\ emitted' = 1
            /\ squaresState'.squareCount = squaresState.squareCount - 1
            /\ squaresState'.dragging = squaresState.dragging
            /\ squaresState'.startPoint = squaresState.startPoint
            /\ squaresState'.coordinates = squaresState.coordinates]_vars

\* C11: after start(a) handled in Idle, cancel(b) and then undo, squareCount
\* is back at its value before the gesture and the phase is Idle, as it was
\* after the cancel.
C11_UndoRestoresCount ==
    gest.stage = 5 =>
        /\ squaresState.squareCount = gest.count0
        /\ ~squaresState.dragging

\* C12: a clear handled while squareCount > 0, in either phase, publishes
\* exactly one snapshot, whose squareCount is 0 and whose phase is the
\* phase before.
C12_ClearResetsCount ==
    [][(lastCmd' = "clear" /\ squaresState.squareCount > 0)
         => /\ emitted' = 1
            /\ squaresState'.squareCount = 0
            /\ squaresState'.dragging = squaresState.dragging]_vars

\* C13: a clear handled while squareCount is 0 is a no-op: nothing is
\* published and neither the snapshot nor #main changes.
C13_ClearAtZeroIsNoOp ==
    [][(lastCmd' = "clear" /\ squaresState.squareCount = 0)
         => (emitted' = 0 /\ squaresState' = squaresState /\ main' = main)]_vars

\* C14: no event's handling raises an error.
C14_NoCommandRaises == ~err

\* C15: no event applies in part: an event whose handling raised an error
\* has changed neither the published snapshot, nor the subscriber's cached
\* state, nor the children of #main.
C15_NoPartialApplication ==
    [][err' => /\ squaresState' = squaresState
               /\ curState' = curState
               /\ main' = main]_vars

\* C16: once the state subscriber has subscribed and before any event is
\* handled, it has been handed exactly one snapshot, the one the store
\* holds, which is the initial state (Idle, startPoint = coordinates =
\* (0,0), squareCount 0), and has rendered it.
C16_ReplayLastOnSubscribe ==
    (pc = "run" /\ lastCmd = "") =>
        /\ received = 1
        /\ curState = squaresState
        /\ ~curState.dragging
        /\ curState.startPoint = Origin
        /\ curState.coordinates = Origin
        /\ curState.squareCount = 0
        /\ undoDisabled
        /\ clearDisabled

\* C16 witness: gatherEventStream has run, no event was handled yet, and the
\* subscriber received and rendered the initial snapshot.
C16_Witness ==
    /\ pc = "run"
    /\ lastCmd = ""
    /\ stateSub
    /\ received = 1
    /\ undoDisabled
    /\ curState = currentSquaresState

\* C17: the phase is Dragging exactly when the most recent StartDrag/EndDrag
\* was a StartDrag: a handled mousedown leaves the store dragging, a handled
\* mouseup leaves it not dragging, and a mousemove, an Undo or a Clear
\* leaves the store's dragging as it was (the store starts not dragging).
C17_PhaseFollowsStartEnd ==
    [][/\ lastCmd' = "start" => squaresState'.dragging
       /\ lastCmd' = "cancel" => ~squaresState'.dragging
       /\ lastCmd' \in {"drag", "undo", "clear"}
            => squaresState'.dragging = squaresState.dragging]_vars

\* C18: every command that is not one of the no-ops (a mousemove or mouseup
\* while not dragging, an Undo or a Clear at squareCount 0) publishes exactly
\* one snapshot, and once it is handled the store holds that snapshot and
\* the subscriber's curState equals it.
C18_OnePublishPerCommand ==
    [][(\/ lastCmd' = "start"
        \/ lastCmd' \in {"drag", "cancel"} /\ squaresState.dragging
        \/ lastCmd' \in {"undo", "clear"} /\ squaresState.squareCount > 0)
         => /\ emitted' = 1
            /\ received' = 1
            /\ curState' = squaresState']_vars

\* C19: only a mousedown makes the renderer add an element to #main, and it
\* adds exactly one: while an Undo, a Clear, a mousemove or a mouseup is
\* handled no element is created, also when the event arrives mid-drag with
\* the dragType 'start' carried over.
C19_OnlyStartCreates ==
    /\ lastCmd = "start" => created = 1
    /\ lastCmd \in {"drag", "cancel", "undo", "clear"} => created = 0

\* C20: a shape that was in #main when a mouseup was handled keeps its x, y,
\* width and height in every later event that does not remove it: a
\* mousedown, a mousemove and a mouseup leave the first nDone children as
\* they were, and an Undo leaves the committed children it does not remove
\* as they were.
C20_CommittedGeometryFixed ==
    [][/\ lastCmd' \in {"start", "drag", "cancel"}
            => \A k \in 1..nDone : RectOf(main'[k]) = RectOf(main[k])
       /\ lastCmd' = "undo"
            => \A k \in 1..doneAfterUndo(main, nDone) :
                   RectOf(main'[k]) = RectOf(afterUndo(main)[k])]_vars

\* the Undo and Clear buttons are disabled exactly when the store's
\* squareCount is 0
ButtonsFollowCount ==
    /\ undoDisabled = (squaresState.squareCount = 0)
    /\ clearDisabled = (squaresState.squareCount = 0)

\* C21: once an event (or the subscribe of gatherEventStream) has been
\* handled, the Undo and Clear buttons are disabled exactly when the
\* published squareCount is 0 and enabled otherwise; hence a click on Undo
\* or Clear is only ever handled in a state whose squareCount is not 0.
C21_ButtonsFollowCount ==
    [][/\ ButtonsFollowCount'
       /\ lastCmd' \in {"undo", "clear"} => squaresState.squareCount # 0]_vars

\* C22: after every handled event (mousedown, mousemove, mouseup, Undo or
\* Clear, dragging or not) the count shown in the counter element equals
\* the squareCount of the snapshot the store holds.
C22_CounterShowsCount ==
    lastCmd # "" => countEl = squaresState.squareCount

====
